---- MODULE Spec2Model ----
(***************************************************************************)
(* A model of juce_CallOutBox.cpp: the placement pass (updatePosition),    *)
(* the notification cascade it starts (setBounds -> moved / resized ->     *)
(* childBoundsChanged), the outline rebuild (refreshPath), setArrowSize,   *)
(* and the dismissal handlers (inputAttemptWhenModal, keyPressed,          *)
(* handleCommandMessage).                                                  *)
(*                                                                         *)
(* Numbers.  Rectangle<int> values are records of integers.  Every float   *)
(* of the code (Point<float>, Line<float>, Rectangle<float>, arrowSize) is *)
(* held in HALF UNITS: the integer 2*v stands for the float v, so that     *)
(* arrow sizes such as 20.5 and the 4.5 gap are exact.  Names ending in 2  *)
(* are in half units.  The probe segments are axis parallel, so the        *)
(* projection in findNearestPointTo is exact in this representation; the   *)
(* rounding of IEEE single precision is not modelled, and scores are       *)
(* compared as real numbers.                                               *)
(*                                                                         *)
(* The deletion of a launched box by its CallOutBoxCallback once the modal *)
(* state has ended is not modelled: the handlers stay callable after the   *)
(* dismissal, which only adds behaviours.                                  *)
(***************************************************************************)
EXTENDS Integers, Sequences, FiniteSets, TLC

VARIABLES borderSpace,    \* int borderSpace
          arrowSize2,     \* float arrowSize, in half units
          content,        \* bounds of the hosted content component (int rect)
          targetArea,     \* Rectangle<int> targetArea
          availableArea,  \* Rectangle<int> availableArea
          bounds,         \* the popup's own bounds (Component::getBounds)
          targetPoint,    \* Point<float> targetPoint (always integral)
          outline,        \* Path outline, as the arguments of the last addBubble
          visible,        \* Component visibility flag
          modal,          \* Component currentlyModal flag
          pendingDismiss, \* posted, not yet handled callOutBoxDismissCommandId messages
          lastOp,         \* the handler that completed last
          passes,         \* results of the updatePosition passes run by that handler
          overflow        \* that handler's cascade exceeded MaxCascade nested passes

vars == <<borderSpace, arrowSize2, content, targetArea, availableArea, bounds,
          targetPoint, outline, visible, modal, pendingDismiss, lastOp, passes,
          overflow>>

----------------------------------------------------------------------------
(* Bounds of the model *)

MaxContentExtra == 1   \* content widths 20 .. 20 + MaxContentExtra
MaxArrowExtra == 2     \* arrow sizes 16.0 and 20.5 .. 20 + MaxArrowExtra/2
MaxTargetGrid == 1     \* target origins (300 i, 300 i), i in 0..MaxTargetGrid
MaxPending == 2        \* posted dismiss messages in flight
MaxCascade == 3        \* nested updatePosition passes followed in one handler

(* Program constants *)

InitialBorderSpace == 20
InitialArrowSize2 == 32
MinBorderSpace == 20
Penalty2 == 2000
Gap2 == 9
CornerSize2 == 18

----------------------------------------------------------------------------
(* Geometry primitives (juce::Point, juce::Rectangle, juce::Line) *)

Pt(px, py) == [x |-> px, y |-> py]

Rect(rx, ry, rw, rh) == [x |-> rx, y |-> ry, w |-> rw, h |-> rh]

jmax(a, b) == IF a < b THEN b ELSE a

jlimit(lo, hi, v) == IF v < lo THEN lo ELSE IF hi < v THEN hi ELSE v

\* (int) f for a float f held in half units: truncation toward zero
TruncToInt(v2) == IF v2 >= 0 THEN v2 \div 2 ELSE -((-v2) \div 2)

getRight(r) == r.x + r.w

getBottom(r) == r.y + r.h

getCentreX(r) == r.x + r.w \div 2

getCentreY(r) == r.y + r.h \div 2

getCentre(r) == Pt(getCentreX(r), getCentreY(r))

getPosition(r) == Pt(r.x, r.y)

\* Rectangle::contains (Point): half open on the right and bottom
contains(r, p) ==
    /\ p.x >= r.x
    /\ p.y >= r.y
    /\ p.x < r.x + r.w
    /\ p.y < r.y + r.h

\* Rectangle::reduced: expanded by a negative amount, size floored at zero
reduced(r, dx, dy) == Rect(r.x + dx, r.y + dy, jmax(0, r.w - 2 * dx), jmax(0, r.h - 2 * dy))

\* Rectangle<int>::toFloat and Point<int>::toFloat, into half units
toFloat(r) == Rect(2 * r.x, 2 * r.y, 2 * r.w, 2 * r.h)

pointToFloat(p) == Pt(2 * p.x, 2 * p.y)

\* Rectangle::getConstrainedPoint: coordinate-wise clamp into the rectangle
getConstrainedPoint(r, p) ==
    Pt(jlimit(r.x, r.x + jmax(0, r.w), p.x), jlimit(r.y, r.y + jmax(0, r.h), p.y))

Line(s, e) == [start |-> s, end |-> e]

\* Line::findNearestPointTo: start + delta * clamp(dot / length, 0, 1)
findNearestPointTo(l, p) ==
    LET dx == l.end.x - l.start.x
        dy == l.end.y - l.start.y
        length == dx * dx + dy * dy
        dot == (p.x - l.start.x) * dx + (p.y - l.start.y) * dy
        num == IF length > 0 THEN jlimit(0, length, dot) ELSE 0
        den == IF length > 0 THEN length ELSE 1
    IN  Pt(l.start.x + (dx * num) \div den, l.start.y + (dy * num) \div den)

\* square of Point::getDistanceFrom
distanceSquared(a, b) == (a.x - b.x) * (a.x - b.x) + (a.y - b.y) * (a.y - b.y)

----------------------------------------------------------------------------
(* The placement pass: CallOutBox::updatePosition, lines 161-204.          *)
(* g is the input of one pass: [ta, aa, cw, ch, bs, as2] = targetArea,     *)
(* availableArea, content width and height, borderSpace, arrowSize.        *)

Geometry(ta, aa, cw, ch, bs, as2) ==
    [ta |-> ta, aa |-> aa, cw |-> cw, ch |-> ch, bs |-> bs, as2 |-> as2]

\* the border added once instead of on both sides
popupWidthOneBorder(g) == g.cw + g.bs

popupWidth(g) == g.cw + g.bs * 2

popupHeight(g) == g.ch + g.bs * 2

hw(g) == popupWidth(g) \div 2

hh(g) == popupHeight(g) \div 2

hwReduced(g) == hw(g) - g.bs * 3

hhReduced(g) == hh(g) - g.bs * 3

arrowIndent2(g) == 2 * g.bs - g.as2

\* targets[i - 1]: the anchor of edge i; 1 bottom, 2 right, 3 left, 4 top
targets(g, i) ==
    CASE i = 1 -> Pt(getCentreX(g.ta), getBottom(g.ta))
      [] i = 2 -> Pt(getRight(g.ta), getCentreY(g.ta))
      [] i = 3 -> Pt(g.ta.x, getCentreY(g.ta))
      [] i = 4 -> Pt(getCentreX(g.ta), g.ta.y)

translated(p, dx, dy) == Pt(p.x + dx, p.y + dy)

\* lines[i - 1]: the probe segment of edge i, in half units
lines(g, i) ==
    LET t == pointToFloat(targets(g, i))
        along == 2 * hwReduced(g)
        down == 2 * hhReduced(g)
        offX == 2 * hw(g) - arrowIndent2(g)
        offY == 2 * hh(g) - arrowIndent2(g)
    IN  CASE i = 1 -> Line(translated(t, -along, offY), translated(t, along, offY))
          [] i = 2 -> Line(translated(t, offX, -down), translated(t, offX, down))
          [] i = 3 -> Line(translated(t, -offX, -down), translated(t, -offX, down))
          [] i = 4 -> Line(translated(t, -along, -offY), translated(t, along, -offY))

centrePointArea(g) == toFloat(reduced(g.aa, hw(g), hh(g)))

targetCentre(g) == pointToFloat(getCentre(g.ta))

constrainedLine(g, i) ==
    LET area == centrePointArea(g)
        l == lines(g, i)
    IN  Line(getConstrainedPoint(area, l.start), getConstrainedPoint(area, l.end))

\* the tentative popup centre of edge i
centre(g, i) == findNearestPointTo(constrainedLine(g, i), targetCentre(g))

\* && written for ||: penalised unless both probe endpoints lie in centrePointArea
penalisedUnlessBoth(g, i) ==
    LET area == centrePointArea(g)
        l == lines(g, i)
    IN  ~ (contains(area, l.start) /\ contains(area, l.end))

\* line 193: neither unclamped probe endpoint lies in centrePointArea
penalised(g, i) ==
    LET area == centrePointArea(g)
        l == lines(g, i)
    IN  ~ (contains(area, l.start) \/ contains(area, l.end))

\* lines 191-194: distanceFromCentre of edge i with tentative centre c, as
\* (squared distance in half units, added penalty in half units)
distanceFromCentre(g, i, c) ==
    [sq |-> distanceSquared(c, pointToFloat(targets(g, i))),
     pen |-> IF penalised(g, i) THEN Penalty2 ELSE 0]

score(g, i) == distanceFromCentre(g, i, centre(g, i))

\* sqrt(a) >= sqrt(b) + d, for d > 0, in integers
rootExceeds(a, b, d) ==
    /\ a - b - d * d >= 0
    /\ (a - b - d * d) * (a - b - d * d) >= 4 * d * d * b

\* sqrt(a) > sqrt(b) + d, for d > 0, in integers
rootStrictlyExceeds(a, b, d) ==
    /\ a - b - d * d > 0
    /\ (a - b - d * d) * (a - b - d * d) > 4 * d * d * b

\* sqrt(s.sq) + s.pen < sqrt(t.sq) + t.pen
lessScore(s, t) ==
    IF s.pen = t.pen THEN s.sq < t.sq
    ELSE IF s.pen < t.pen THEN ~ rootExceeds(s.sq, t.sq, t.pen - s.pen)
    ELSE rootStrictlyExceeds(t.sq, s.sq, s.pen - t.pen)

\* float nearest = 1.0e9f: larger than every score the model's inputs produce
InitialNearest == [inf |-> TRUE]

\* <= written for <: a later edge with an equal score replaces the earlier one
isNearerOrEqual(s, nearest) == nearest.inf \/ ~ lessScore(nearest.score, s)

\* > written for <: a farther edge replaces a nearer one
isFarther(s, nearest) == nearest.inf \/ lessScore(nearest.score, s)

\* line 196: distanceFromCentre < nearest
isNearer(s, nearest) == nearest.inf \/ lessScore(s, nearest.score)

\* lines 201-202: ((int) (centre.x - hw), (int) (centre.y - hh))
newPosition(g, c) == Pt(TruncToInt(c.x - 2 * hw(g)), TruncToInt(c.y - 2 * hh(g)))

\* lines 185-204: the scan of the four edges, keeping the running minimum
RECURSIVE scanEdges(_, _, _)
scanEdges(g, i, best) ==
    IF i > 4 THEN best
    ELSE LET c == centre(g, i)
             d == distanceFromCentre(g, i, c)
         IN  IF isNearer(d, best.nearest)
             THEN scanEdges(g, i + 1, [nearest |-> [inf |-> FALSE, score |-> d],
                                       targetPoint |-> targets(g, i),
                                       position |-> newPosition(g, c)])
             ELSE scanEdges(g, i + 1, best)

\* the targetPoint and newBounds that updatePosition hands to setBounds
solve(g, oldTargetPoint) ==
    LET best == scanEdges(g, 1, [nearest |-> InitialNearest,
                                 targetPoint |-> oldTargetPoint,
                                 position |-> Pt(0, 0)])
    IN  [targetPoint |-> best.targetPoint,
         newBounds |-> Rect(best.position.x, best.position.y, popupWidth(g), popupHeight(g))]

----------------------------------------------------------------------------
(* The popup object and the notification cascade.  b is the object's       *)
(* state as a record; fuel is the number of updatePosition passes one      *)
(* handler may still start before the model gives up following it.         *)

\* Path::addBubble: the path is determined by its arguments
addBubble(bodyArea, maximumArea, arrowTip, cornerSize, arrowBaseWidth) ==
    [bodyArea |-> bodyArea, maximumArea |-> maximumArea, arrowTip |-> arrowTip,
     cornerSize |-> cornerSize, arrowBaseWidth |-> arrowBaseWidth]

\* Rectangle<float>::expanded
expanded(r, dx, dy) == Rect(r.x - dx, r.y - dy, jmax(0, r.w + 2 * dx), jmax(0, r.h + 2 * dy))

getLocalBounds(r) == Rect(0, 0, r.w, r.h)

\* the path refreshPath builds from the object's current fields;
\* arrowSize * 0.7f is held in twentieths (7 * arrowSize2)
bubbleOf(b) ==
    addBubble(expanded(toFloat(b.content), Gap2, Gap2),
              toFloat(getLocalBounds(b.bounds)),
              Pt(2 * b.targetPoint.x - 2 * b.bounds.x, 2 * b.targetPoint.y - 2 * b.bounds.y),
              CornerSize2,
              7 * b.arrowSize2)

refreshPath(b) == [b EXCEPT !.outline = bubbleOf(b)]

moved(b) == refreshPath(b)

RECURSIVE updatePosition(_, _, _, _)
RECURSIVE setBounds(_, _, _)
RECURSIVE resized(_, _)
RECURSIVE childBoundsChanged(_, _)
RECURSIVE contentSetTopLeftPosition(_, _, _, _)

\* Component::setBounds on the popup: store, then moved() and resized() for what changed
setBounds(b, newBounds, fuel) ==
    LET wasMoved == newBounds.x # b.bounds.x \/ newBounds.y # b.bounds.y
        wasResized == newBounds.w # b.bounds.w \/ newBounds.h # b.bounds.h
        b1 == [b EXCEPT !.bounds = newBounds]
        b2 == IF wasMoved THEN moved(b1) ELSE b1
    IN  IF wasResized THEN resized(b2, fuel) ELSE b2

\* content.setTopLeftPosition: a changed position notifies the parent
contentSetTopLeftPosition(b, px, py, fuel) ==
    IF b.content.x = px /\ b.content.y = py THEN b
    ELSE childBoundsChanged([b EXCEPT !.content.x = px, !.content.y = py], fuel)

\* resized() also sizing the content, to the bounds less one border
resizedSizingContent(b, fuel) ==
    LET fitted == Rect(b.borderSpace, b.borderSpace,
                       b.bounds.w - b.borderSpace, b.bounds.h - b.borderSpace)
    IN  refreshPath(IF b.content = fitted THEN b
                    ELSE childBoundsChanged([b EXCEPT !.content = fitted], fuel))

resized(b, fuel) ==
    refreshPath(contentSetTopLeftPosition(b, b.borderSpace, b.borderSpace, fuel))

childBoundsChanged(b, fuel) == updatePosition(b, b.targetArea, b.availableArea, fuel)

updatePosition(b, newAreaToPointTo, newAreaToFitIn, fuel) ==
    IF fuel = 0 THEN [b EXCEPT !.overflow = TRUE]
    ELSE LET g == Geometry(newAreaToPointTo, newAreaToFitIn, b.content.w, b.content.h,
                           b.borderSpace, b.arrowSize2)
             r == solve(g, b.targetPoint)
             b1 == [b EXCEPT !.targetArea = newAreaToPointTo,
                             !.availableArea = newAreaToFitIn,
                             !.targetPoint = r.targetPoint,
                             !.passes = Append(@, r)]
         IN  setBounds(b1, r.newBounds, fuel - 1)

\* borderSpace = jmax (20, (int) arrowSize)
newBorderSpace(newSize2) == jmax(MinBorderSpace, TruncToInt(newSize2))

setArrowSize(b, newSize2) ==
    refreshPath([b EXCEPT !.arrowSize2 = newSize2, !.borderSpace = newBorderSpace(newSize2)])

\* content.setBounds by the content's owner: changed bounds notify the parent
contentSetBounds(b, newContent, fuel) ==
    IF b.content = newContent THEN b
    ELSE childBoundsChanged([b EXCEPT !.content = newContent], fuel)

\* the object before the constructor body runs, hosting a content of size w x h
unplaced(w, h) ==
    [borderSpace |-> InitialBorderSpace, arrowSize2 |-> InitialArrowSize2,
     content |-> Rect(0, 0, w, h),
     targetArea |-> Rect(0, 0, 0, 0), availableArea |-> Rect(0, 0, 0, 0),
     bounds |-> Rect(0, 0, 0, 0), targetPoint |-> Pt(0, 0),
     outline |-> [empty |-> TRUE], passes |-> << >>, overflow |-> FALSE]

\* CallOutBox::CallOutBox: one placement against the parent's or the display's area
construct(w, h, area, fitIn) == updatePosition(unplaced(w, h), area, fitIn, MaxCascade)

----------------------------------------------------------------------------
(* Inputs *)

ScenarioTarget == Rect(100, 100, 50, 20)

ScenarioArea == Rect(0, 0, 800, 600)

ScenarioContent == << 200, 100 >>

\* contents 20 and 21 high, from 20 wide: popups of even and odd size
ContentSizes ==
    {<< 20 + k, 20 + j >> : k \in 0..MaxContentExtra, j \in 0..1} \cup {ScenarioContent}

\* 16.0, and 20.5, 21.0, ... in half units
ArrowSizes2 == {InitialArrowSize2} \cup {2 * MinBorderSpace + k : k \in 1..MaxArrowExtra}

\* the target of the scenario, and a tall and a wide target at the origin,
\* at (300, 300), ...
TargetAreas ==
    {Rect(300 * i, 300 * i, sz[1], sz[2]) :
        i \in 0..MaxTargetGrid, sz \in {<< 10, 20 >>, << 50, 20 >>}} \cup {ScenarioTarget}

\* the display of the scenario, two areas about as large as the popup, and
\* one whose origin is negative (a display left of and above the main one)
AvailableAreas ==
    {ScenarioArea, Rect(0, 0, 70, 100), Rect(0, 0, 61, 61), Rect(-50, -50, 130, 130)}

\* the smaller inputs of the full specification
SomeContentSizes == {<< 20, 21 >>, << 21, 21 >>}

SomeTargetAreas == {ScenarioTarget, Rect(0, 0, 10, 20)}

SomeAvailableAreas == {ScenarioArea, Rect(0, 0, 61, 61)}

\* 16.0, 20.5 ... and 32.0: an arrow longer than the content is wide
SomeArrowSizes2 == ArrowSizes2 \cup {64}

MousePositions == {Pt(110, 105), Pt(5, 5), Pt(300, 300)}

Keys == {"escapeKey", "otherKey"}

callOutBoxDismissCommandId == "callOutBoxDismissCommandId"

CommandIds == {callOutBoxDismissCommandId, "otherCommandId"}

----------------------------------------------------------------------------
(* State *)

Box ==
    [borderSpace |-> borderSpace, arrowSize2 |-> arrowSize2, content |-> content,
     targetArea |-> targetArea, availableArea |-> availableArea, bounds |-> bounds,
     targetPoint |-> targetPoint, outline |-> outline, passes |-> << >>,
     overflow |-> FALSE]

Store(b) ==
    /\ borderSpace' = b.borderSpace
    /\ arrowSize2' = b.arrowSize2
    /\ content' = b.content
    /\ targetArea' = b.targetArea
    /\ availableArea' = b.availableArea
    /\ bounds' = b.bounds
    /\ targetPoint' = b.targetPoint
    /\ outline' = b.outline
    /\ passes' = b.passes
    /\ overflow' = b.overflow

boxVars == <<borderSpace, arrowSize2, content, targetArea, availableArea, bounds,
             targetPoint, outline>>

sessionVars == <<visible, modal, pendingDismiss>>

\* the constructor, then what its caller does: CallOutBoxCallback makes the box
\* visible and modal; the constructor given a parent makes it visible only
Construct(sizes, areas, fitIns, launches) ==
    \E sz \in sizes, area \in areas, fitIn \in fitIns, launched \in launches :
        \E b \in {construct(sz[1], sz[2], area, fitIn)} :
            /\ borderSpace = b.borderSpace
            /\ arrowSize2 = b.arrowSize2
            /\ content = b.content
            /\ targetArea = b.targetArea
            /\ availableArea = b.availableArea
            /\ bounds = b.bounds
            /\ targetPoint = b.targetPoint
            /\ outline = b.outline
            /\ passes = b.passes
            /\ overflow = b.overflow
            /\ visible = TRUE
            /\ modal = launched
            /\ pendingDismiss = 0
            /\ lastOp = "construct"

Init == Construct(SomeContentSizes, SomeTargetAreas, SomeAvailableAreas, BOOLEAN)

InitPlacement == Construct(ContentSizes, TargetAreas, AvailableAreas, {TRUE})

----------------------------------------------------------------------------
(* Operations *)

\* updatePosition called by the popup's owner with a new pair of rectangles
UpdatePosition(newAreaToPointTo, newAreaToFitIn) ==
    /\ \E b \in {updatePosition(Box, newAreaToPointTo, newAreaToFitIn, MaxCascade)} : Store(b)
    /\ lastOp' = "updatePosition"
    /\ UNCHANGED sessionVars

\* the hosted content is given other bounds by its owner: the reflow
ChildBoundsChanged(newContent) ==
    /\ content # newContent
    /\ \E b \in {contentSetBounds(Box, newContent, MaxCascade)} : Store(b)
    /\ lastOp' = "childBoundsChanged"
    /\ UNCHANGED sessionVars

SetArrowSize(newSize2) ==
    /\ \E b \in {setArrowSize(Box, newSize2)} : Store(b)
    /\ lastOp' = "setArrowSize"
    /\ UNCHANGED sessionVars

\* the dismissal done at once, whatever the pointer is over
inputAttemptDismissingAtOnce(mousePos) ==
    /\ modal' = FALSE
    /\ visible' = FALSE
    /\ UNCHANGED pendingDismiss

\* lines 116-132; mousePos is getMouseXYRelative() + getBounds().getPosition()
inputAttemptWhenModal(mousePos) ==
    IF contains(targetArea, mousePos)
    THEN /\ pendingDismiss < MaxPending
         /\ pendingDismiss' = pendingDismiss + 1
         /\ UNCHANGED <<visible, modal>>
    ELSE /\ modal' = FALSE
         /\ visible' = FALSE
         /\ UNCHANGED pendingDismiss

InputAttemptWhenModal(mousePos) ==
    /\ inputAttemptWhenModal(mousePos)
    /\ lastOp' = "inputAttemptWhenModal"
    /\ UNCHANGED <<boxVars, passes, overflow>>

KeyPressed(key, mousePos) ==
    /\ IF key = "escapeKey"
       THEN inputAttemptWhenModal(mousePos) /\ lastOp' = "keyPressedEscape"
       ELSE UNCHANGED sessionVars /\ lastOp' = "keyPressedOther"
    /\ UNCHANGED <<boxVars, passes, overflow>>

\* the delivered dismiss message is consumed but not acted on
HandleCommandMessageIgnored(commandId) ==
    /\ IF commandId = callOutBoxDismissCommandId
       THEN /\ pendingDismiss > 0
            /\ pendingDismiss' = pendingDismiss - 1
            /\ UNCHANGED <<visible, modal>>
       ELSE UNCHANGED sessionVars
    /\ lastOp' = "handleCommandMessage"
    /\ UNCHANGED <<boxVars, passes, overflow>>

\* a posted dismiss message is delivered, or some other command arrives
HandleCommandMessage(commandId) ==
    /\ IF commandId = callOutBoxDismissCommandId
       THEN /\ pendingDismiss > 0
            /\ pendingDismiss' = pendingDismiss - 1
            /\ modal' = FALSE
            /\ visible' = FALSE
       ELSE UNCHANGED sessionVars
    /\ lastOp' = "handleCommandMessage"
    /\ UNCHANGED <<boxVars, passes, overflow>>

\* the content is resized in place or, with origins, also moved
PlacementStep(sizes, areas, fitIns, arrowSizes, origins) ==
    \/ \E area \in areas, fitIn \in fitIns : UpdatePosition(area, fitIn)
    \/ \E sz \in sizes, at \in origins \cup {getPosition(content)} :
           ChildBoundsChanged(Rect(at.x, at.y, sz[1], sz[2]))
    \/ \E newSize2 \in arrowSizes : SetArrowSize(newSize2)

Next ==
    \/ PlacementStep(SomeContentSizes, SomeTargetAreas, SomeAvailableAreas, SomeArrowSizes2,
                     {Pt(0, 0)})
    \/ \E mousePos \in MousePositions : InputAttemptWhenModal(mousePos)
    \/ \E key \in Keys, mousePos \in MousePositions : KeyPressed(key, mousePos)
    \/ \E commandId \in CommandIds : HandleCommandMessage(commandId)

NextPlacement == PlacementStep(ContentSizes, TargetAreas, AvailableAreas, ArrowSizes2, {})

Spec == Init /\ [][Next]_vars

\* every posted message is eventually delivered by the message loop
SpecFair == Spec /\ WF_vars(HandleCommandMessage(callOutBoxDismissCommandId))

SpecPlacement == InitPlacement /\ [][NextPlacement]_vars

----------------------------------------------------------------------------
(* Properties *)

\* the last handler ran a placement pass, so the fields are that pass's inputs
Placed == lastOp \in {"construct", "updatePosition", "childBoundsChanged"}

\* the input of the last placement pass
G == Geometry(targetArea, availableArea, content.w, content.h, borderSpace, arrowSize2)

\* the pass chose edge i: the arrow tip is its anchor (the anchors of a target
\* with a positive width and height are four different points) and the
\* position is (int) of its tentative centre minus (hw, hh)
chose(i) ==
    /\ targetPoint = targets(G, i)
    /\ getPosition(bounds) = newPosition(G, centre(G, i))

within(r, area) ==
    /\ r.x >= area.x
    /\ r.y >= area.y
    /\ getRight(r) <= getRight(area)
    /\ getBottom(r) <= getBottom(area)

\* C1: after a placement pass whose AvailableArea is at least popupSize wide
\* and high, the bounds lie entirely within AvailableArea
C1_BoundsWithinAvailableArea ==
    (Placed /\ availableArea.w >= popupWidth(G) /\ availableArea.h >= popupHeight(G))
        => within(bounds, availableArea)

\* C2 as stated: in every reachable state the bounds are at least
\* 2 * borderSpace wide and high, for the current borderSpace
C2_BoundsAtLeastTwiceBorderAlways ==
    bounds.w >= 2 * borderSpace /\ bounds.h >= 2 * borderSpace

\* C2 amended: the bounds are at least 2 * borderSpace wide and high in every
\* state a placement pass (construction, updatePosition, reflow) has just left
C2_BoundsAtLeastTwiceBorderWhenPlaced ==
    Placed => (bounds.w >= 2 * borderSpace /\ bounds.h >= 2 * borderSpace)

C2_Witness ==
    /\ Placed
    /\ borderSpace > InitialBorderSpace
    /\ bounds.w = content.w + 2 * borderSpace

NoEdgePenalised == \A i \in 1..4 : ~ penalised(G, i)

\* C3 as stated: with no edge penalised, the pass chooses an edge such that no
\* edge's tentative centre is strictly closer to the centre of TargetArea
C3_NearestToTargetCentre ==
    (Placed /\ NoEdgePenalised) =>
        \E i \in 1..4 :
            /\ chose(i)
            /\ \A j \in 1..4 :
                  ~ (distanceSquared(centre(G, j), targetCentre(G))
                       < distanceSquared(centre(G, i), targetCentre(G)))

\* C3 amended: with no edge penalised, the pass chooses an edge such that no
\* edge's tentative centre is strictly closer to that edge's own anchor than
\* the chosen edge's tentative centre is to the chosen edge's anchor
C3_NearestToOwnAnchor ==
    (Placed /\ NoEdgePenalised) =>
        \E i \in 1..4 :
            /\ chose(i)
            /\ \A j \in 1..4 : ~ (score(G, j).sq < score(G, i).sq)

C3_Witness ==
    /\ Placed
    /\ NoEdgePenalised
    /\ \E i, j \in 1..4 : chose(i) /\ score(G, j).sq > score(G, i).sq

InScenario ==
    /\ Placed
    /\ targetArea = ScenarioTarget
    /\ availableArea = ScenarioArea
    /\ << content.w, content.h >> = ScenarioContent
    /\ borderSpace = InitialBorderSpace
    /\ arrowSize2 = InitialArrowSize2

\* C4: in the scenario the pass picks the bottom edge, the bounds are 240 x 140
\* and the arrow tip is (125, 120), the bottom centre of TargetArea
C4_Scenario ==
    InScenario =>
        /\ chose(1)
        /\ targetPoint = Pt(125, 120)
        /\ bounds.w = 240 /\ bounds.h = 140

C4_Witness == InScenario /\ lastOp = "updatePosition" /\ targetPoint = Pt(125, 120)

\* C5: in every reachable state borderSpace >= max(20, arrowSize)
C5_BorderCoversArrow ==
    /\ borderSpace >= MinBorderSpace
    /\ 2 * borderSpace >= arrowSize2

\* C6: an input attempt or escape key press made while the popup is visible and
\* modal, with the pointer inside TargetArea, posts one dismiss message and
\* leaves the popup visible and modal
C6_DismissIsDeferred ==
    [][\A mousePos \in MousePositions :
          ( /\ visible /\ modal
            /\ contains(targetArea, mousePos)
            /\ InputAttemptWhenModal(mousePos) \/ KeyPressed("escapeKey", mousePos) )
          => (visible' /\ modal' /\ pendingDismiss' = pendingDismiss + 1)]_vars

C6_Witness ==
    /\ lastOp \in {"inputAttemptWhenModal", "keyPressedEscape"}
    /\ visible /\ modal
    /\ pendingDismiss > 0

Dismissed == ~ visible /\ ~ modal

\* C7: after an input attempt or escape key press the popup is eventually
\* dismissed (invisible and not modal), and once dismissed it stays dismissed
C7_DismissalIsTerminal ==
    /\ (lastOp \in {"inputAttemptWhenModal", "keyPressedEscape"}) ~> Dismissed
    /\ [][Dismissed => Dismissed']_vars

C7_Witness ==
    /\ Dismissed
    /\ lastOp = "handleCommandMessage"
    /\ pendingDismiss > 0

\* edge i has the least score, and no earlier edge has the same score
firstMinimum(i) ==
    \A j \in 1..4 :
        /\ ~ lessScore(score(G, j), score(G, i))
        /\ j < i => lessScore(score(G, i), score(G, j))

\* C8: a placement pass chooses the first edge, in the order bottom, right,
\* left, top, whose score is the least of the four scores; the arrow tip is
\* that edge's anchor and the position is (int) of its tentative centre
\* minus (hw, hh)
C8_FirstMinimumEdge ==
    Placed =>
        /\ Cardinality({i \in 1..4 : firstMinimum(i)}) = 1
        /\ \E i \in 1..4 : firstMinimum(i) /\ chose(i)

C8_Witness ==
    /\ Placed
    /\ availableArea.w < popupWidth(G)
    /\ \A i \in 1..4 : penalised(G, i)
    /\ \E i \in 2..4 : firstMinimum(i) /\ chose(i)

\* C9: after every completed operation the outline is the bubble built from
\* the current content bounds, local bounds, arrow tip and arrowSize
C9_OutlineIsCurrent == outline = bubbleOf(Box)

\* C10: a reflow leaves targetArea and availableArea unchanged, ends within
\* the passes the model follows, and each nested pass yields the bounds and
\* arrow tip of the pass that triggered it, which are the final ones
C10_ReflowReachesFixedPoint ==
    [][lastOp' = "childBoundsChanged" =>
          /\ targetArea' = targetArea
          /\ availableArea' = availableArea
          /\ ~ overflow'
          /\ Len(passes') >= 1
          /\ \A k \in 1..Len(passes') : passes'[k] = passes'[1]
          /\ bounds' = passes'[1].newBounds
          /\ targetPoint' = passes'[1].targetPoint]_vars

C10_Witness ==
    /\ lastOp = "childBoundsChanged"
    /\ Len(passes) = 2
    /\ ~ overflow

====
